---- MODULE Spec2Model ----
(***************************************************************************)
(* Model of panel_de_ventas_con_google_drive.py: the cached load_data      *)
(* pipeline (source fallback loop, transient file, column validation), the *)
(* script run that consumes it (load validation, date enrichment, sidebar  *)
(* filters, filter application, the four tabs, refresh button) and the     *)
(* st.cache_data time-to-live memoisation around load_data.                *)
(***************************************************************************)
EXTENDS Integers, Sequences, FiniteSets, TLC

\* ------------------------------------------------------------------ bounds
\* Longest table a source serves in Spec.
MaxFilasFuente == 1
\* Longest dataset the views are run on in SpecVistas.
MaxRegistros == 2

\* --------------------------------------------------------------- constants
\* @st.cache_data(ttl=3600)
ttl == 3600

\* file_urls: a drive.google.com link (gdown branch) and an export link
\* (requests branch).
file_urls == << "drive.google.com/uc", "docs.google.com/export" >>

NumFuentes == Len(file_urls)

required_columns ==
    << "Vendedor", "Fecha Pedido", "Nombre Cliente", "Codigo Cliente",
       "Pedido", "Codigo Producto", "Nombre Producto", "Cantidad",
       "Precio", "Monto Total", "Caja", "Centro" >>

Rango(s) == { s[k] : k \in DOMAIN s }

\* A blank spreadsheet cell read by pandas.
NaN == "NaN"

\* The value load_data returns when every source failed.
None == [tipo |-> "None"]

\* df before load_data has returned in the current script run.
SinCargar == [tipo |-> "sin_cargar"]

\* ------------------------------------------------------------ data domain
Fechas ==
    { [ano |-> 2024, mes |-> 3, dia |-> 15],
      [ano |-> 2024, mes |-> 4, dia |-> 2],
      [ano |-> 2023, mes |-> 3, dia |-> 10] }

Importes == { [monto |-> 100, caja |-> 1], [monto |-> 200, caja |-> 3] }

\* The order date and the amounts of a row: two years, two months of one
\* year, and one date with either amount.
Ventas ==
    { << f, m >> \in Fechas \X Importes :
        \/ f.ano = 2024 /\ f.mes = 3
        \/ f.ano = 2024 /\ f.mes = 4 /\ m.monto = 200
        \/ f.ano = 2023 /\ m.monto = 100 }

\* One spreadsheet row, restricted to the columns the modelled steps read.
Registro(v, c, f, m) ==
    [Vendedor |-> v, Centro |-> c, Fecha_Pedido |-> f,
     Monto_Total |-> m.monto, Caja |-> m.caja, Pedido |-> 1,
     Nombre_Cliente |-> "C1", Nombre_Producto |-> "P1"]

Registros ==
    { Registro(v, c, fm[1], fm[2]) :
        v \in {"A", "B", NaN}, c \in {"X", "Y"}, fm \in Ventas }

\* A blank numeric cell (NaN), and each component of a blank date (NaT).
SinValor == 0

NaT == [ano |-> SinValor, mes |-> SinValor, dia |-> SinValor]

\* A row with its order id, customer and product.
RegistroPedido(v, c, f, m, p, cl, pr) ==
    [Registro(v, c, f, m) EXCEPT !.Pedido = p, !.Nombre_Cliente = cl,
                                 !.Nombre_Producto = pr]

\* The order date and the amounts of a row of the orders tab: two days of
\* one month, a day of the month before, and a blank date.
VentasPestanas ==
    { << [ano |-> 2024, mes |-> 3, dia |-> 15], [monto |-> 100, caja |-> 1] >>,
      << [ano |-> 2024, mes |-> 3, dia |-> 16], [monto |-> 100, caja |-> 1] >>,
      << [ano |-> 2024, mes |-> 2, dia |-> 10], [monto |-> 200, caja |-> 3] >>,
      << NaT, [monto |-> 100, caja |-> 1] >> }

\* Rows the orders tab is run on in SpecPestanas: order 1 of each of two
\* salespeople on each date, and for the first day a second order and a
\* row whose order cell is blank.
RegistrosPestanas ==
    { RegistroPedido(v, "X", fm[1], fm[2], 1, "C1", "P1") :
        v \in {"A", "B"}, fm \in VentasPestanas }
    \cup { RegistroPedido("A", "X", [ano |-> 2024, mes |-> 3, dia |-> 15],
                          [monto |-> 100, caja |-> 1], p, "C1", "P1") :
             p \in {2, SinValor} }

\* Rows served by the sources in Spec.
RegistrosFuente ==
    { Registro("A", "X", [ano |-> 2024, mes |-> 3, dia |-> 15],
               [monto |-> 100, caja |-> 1]),
      Registro("B", "Y", [ano |-> 2024, mes |-> 4, dia |-> 2],
               [monto |-> 200, caja |-> 3]) }

SeqHasta(S, n) == UNION { [1..k -> S] : k \in 0..n }

\* The header rows a parsed spreadsheet may have: complete, complete with
\* an extra column, one or two required columns absent, none at all.
ColumnasCompletas == { Rango(required_columns),
                       Rango(required_columns) \cup {"Extra"} }

ColumnasIncompletas ==
    { Rango(required_columns) \ {"Caja"},
      (Rango(required_columns) \ {"Precio", "Centro"}) \cup {"Extra"},
      {} }

\* A DataFrame: its header, its rows, and whether 'Fecha Pedido' was read
\* with a datetime dtype (the .dt accessor raises otherwise).
DataFrame(cols, filas, dt) ==
    [tipo |-> "df", columns |-> cols, filas |-> filas, fecha_dt |-> dt]

TablasFuente ==
    { DataFrame(c, f, dt) :
        c \in ColumnasCompletas,
        f \in SeqHasta(RegistrosFuente, MaxFilasFuente),
        dt \in BOOLEAN }
    \cup { DataFrame(c, << >>, TRUE) : c \in ColumnasIncompletas }

\* What a downloaded file can hold.
Contenidos ==
    { [clase |-> "vacio"], [clase |-> "corrupto"] }
    \cup { [clase |-> "xlsx", tabla |-> t] : t \in TablasFuente }

\* Outcomes of the download step of one attempt.  gdown writes the output
\* only on success and, with quiet=True, may also give up without raising;
\* requests raises before the file is opened (raise_for_status, timeout) or
\* while streaming, which leaves a partial file behind.
Descargas(url) ==
    IF url = "drive.google.com/uc"
    THEN { [excepcion |-> TRUE, escrito |-> FALSE, contenido |-> [clase |-> "vacio"]],
           [excepcion |-> FALSE, escrito |-> FALSE, contenido |-> [clase |-> "vacio"]] }
         \cup { [excepcion |-> FALSE, escrito |-> TRUE, contenido |-> c] :
                    c \in Contenidos }
    ELSE { [excepcion |-> TRUE, escrito |-> FALSE, contenido |-> [clase |-> "vacio"]],
           [excepcion |-> TRUE, escrito |-> TRUE, contenido |-> [clase |-> "vacio"]],
           [excepcion |-> TRUE, escrito |-> TRUE, contenido |-> [clase |-> "corrupto"]] }
         \cup { [excepcion |-> FALSE, escrito |-> TRUE, contenido |-> c] :
                    c \in Contenidos }

\* ------------------------------------------------------------------ state
VARIABLES
    pc,            \* position of the script run
    df,            \* the script's df
    pasos,         \* processing steps the current script run has executed
    mensajes,      \* st.error and per-tab messages of the current script run
    cache,         \* the st.cache_data entry of load_data
    lpc,           \* position inside load_data
    i,             \* loop index of load_data (1-based source number)
    temp_file,     \* load_data's temp_file
    archivos,      \* transient files that exist on disk
    salida,        \* what the try block does once its finally has run
    intentos,      \* history: the attempts of the current load_data call
    avisos,        \* st.warning messages of the current load_data call
    creados,       \* history: transient files the current call has created
    hist,          \* history: the last result the pipeline produced
    origen,        \* history: what served the current run's load_data call
    ano_seleccionado,
    mes_seleccionado,
    centros_seleccionados,
    vendedores_seleccionados,
    df_filtrado,
    aviso_filtro,  \* the "no hay datos" warning of the filter step
    ventas_totales,
    cajas_totales,
    ventas_vendedor,
    ventas_centro,
    pedidos_totales,
    ticket_promedio,
    ventas_mes_anterior,
    variacion,
    objetivo,
    pedidos_vendedor,
    clientes_seleccionados,
    productos_buscar

vars ==
    << pc, df, pasos, mensajes, cache, lpc, i, temp_file, archivos, salida,
       intentos, avisos, creados, hist, origen, ano_seleccionado,
       mes_seleccionado, centros_seleccionados, vendedores_seleccionados,
       df_filtrado,
       aviso_filtro, ventas_totales, cajas_totales, ventas_vendedor,
       ventas_centro, pedidos_totales, ticket_promedio, ventas_mes_anterior,
       variacion, objetivo, pedidos_vendedor, clientes_seleccionados,
       productos_buscar >>

varsCarga ==
    << lpc, i, temp_file, archivos, salida, intentos, avisos, creados >>

varsVistas ==
    << ano_seleccionado, mes_seleccionado, centros_seleccionados,
       vendedores_seleccionados, df_filtrado, aviso_filtro, ventas_totales,
       cajas_totales, ventas_vendedor, ventas_centro, pedidos_totales,
       ticket_promedio, ventas_mes_anterior, variacion, objetivo,
       pedidos_vendedor, clientes_seleccionados, productos_buscar >>

\* The values the tabs compute and the widgets they read.
varsPestanas ==
    << pedidos_totales, ticket_promedio, ventas_mes_anterior, variacion,
       objetivo, pedidos_vendedor, clientes_seleccionados, productos_buscar >>

\* A quotient n / d; d = 0 stands for the inf or NaN pandas returns.
Fraccion(n, d) == [num |-> n, den |-> d]

\* The number 0.
Cero == Fraccion(0, 1)

\* objetivo_default = 45
objetivo_default == 45

\* ------------------------------------------------------- st.cache_data
SinEntrada == [presente |-> FALSE]

\* The entry st.cache_data stores for a value load_data returned: the
\* decorator memoises whatever the function returns, None included.
Entrada(v) == [presente |-> TRUE, valor |-> v, edad |-> 0]

\* Variant of CacheHit: the age of the entry is not compared with ttl.
CacheHitSinTtl == cache.presente

\* A stored entry serves a call while it is younger than ttl.
CacheHit == cache.presente /\ cache.edad < ttl

\* Variant of Vaciar: the button reruns the script without clearing.
VaciarNada == cache

\* st.cache_data.clear()
Vaciar == SinEntrada

SinHistoria == [hubo |-> FALSE]

\* ------------------------------------------------------------- load_data
SinTemporal == [prefijo |-> "indefinido", i |-> 0]

\* temp_file = .../ventas_spv_temp_{int(time.time())}_{i}.xlsx
NombreTemporal(k) == [prefijo |-> "ventas_spv_temp", i |-> k]

Existe(n) == \E a \in archivos : a.nombre = n

Leer(n) == (CHOOSE a \in archivos : a.nombre = n).contenido

Continue == [tipo |-> "continue"]

Return(v) == [tipo |-> "return", valor |-> v]

\* st.warning(f"Intento {i+1} fallido: ...")
IntentoFallido(k) == [fuente |-> k, tipo |-> "intento_fallido", missing |-> << >>]

\* st.warning(f"Fuente {i+1}: Faltan columnas: {', '.join(missing)}")
FaltanColumnas(k, m) == [fuente |-> k, tipo |-> "faltan_columnas", missing |-> m]

\* Variant of TodasPresentes: any() where the code has all().
AlgunaPresente(cols) ==
    \E k \in DOMAIN required_columns : required_columns[k] \in cols

\* all(col in df.columns for col in required_columns)
TodasPresentes(cols) ==
    \A k \in DOMAIN required_columns : required_columns[k] \in cols

\* Variant of missing: the membership test is inverted.
missingPresentes(cols) == SelectSeq(required_columns, LAMBDA c : c \in cols)

\* missing = [col for col in required_columns if col not in df.columns]
missing(cols) == SelectSeq(required_columns, LAMBDA c : c \notin cols)

\* load_data returns v: the decorator stores it and the script's df gets it.
Retornar(v) ==
    /\ lpc' = "fuera"
    /\ cache' = Entrada(v)
    /\ hist' = [hubo |-> TRUE, valor |-> v, edad |-> 0, invalidado |-> FALSE]
    /\ df' = v
    /\ origen' = "pipeline"
    /\ pc' = "validar"

\* The download step of attempt i: name the transient file, then gdown or
\* requests writes it, or raises into the except handler.
Descargar(res) ==
    /\ lpc = "descargar"
    /\ i <= NumFuentes
    /\ res \in Descargas(file_urls[i])
    /\ temp_file' = NombreTemporal(i)
    /\ IF res.escrito
       THEN /\ archivos' = archivos \cup
                   { [nombre |-> NombreTemporal(i), contenido |-> res.contenido] }
            /\ creados' = creados \cup { NombreTemporal(i) }
       ELSE UNCHANGED << archivos, creados >>
    /\ intentos' = Append(intentos, [fuente |-> i, descarga |-> res])
    /\ IF res.excepcion
       THEN /\ avisos' = Append(avisos, IntentoFallido(i))
            /\ salida' = Continue
            /\ lpc' = "finally"
       ELSE /\ UNCHANGED << avisos, salida >>
            /\ lpc' = "verificar"
    /\ UNCHANGED << pc, df, pasos, mensajes, cache, i, hist, origen >>
    /\ UNCHANGED varsVistas

\* Size check, read_excel and column validation of attempt i.
Verificar ==
    /\ lpc = "verificar"
    /\ IF \/ ~Existe(temp_file)
          \/ Leer(temp_file).clase \in {"vacio", "corrupto"}
       THEN \* getsize raises, ValueError("vacío"), or read_excel raises
            /\ avisos' = Append(avisos, IntentoFallido(i))
            /\ salida' = Continue
       ELSE LET tabla == Leer(temp_file).tabla
            IN  IF ~TodasPresentes(tabla.columns)
                THEN /\ avisos' = Append(avisos,
                                         FaltanColumnas(i, missing(tabla.columns)))
                     /\ salida' = Continue
                ELSE /\ salida' = Return(tabla)
                     /\ UNCHANGED avisos
    /\ lpc' = "finally"
    /\ UNCHANGED << pc, df, pasos, mensajes, cache, i, temp_file, archivos,
                    intentos, creados, hist, origen >>
    /\ UNCHANGED varsVistas

\* Variant of Limpieza: the removal sits in the except path only, so a
\* successful return skips it.
LimpiezaSoloEnFallo ==
    IF salida.tipo = "return" THEN archivos
    ELSE { a \in archivos : a.nombre # temp_file }

\* The files left once the finally block has run: temp_file is removed
\* when it exists (os.remove of a file this call wrote and closed succeeds;
\* the bare except around it is never entered).
Limpieza == { a \in archivos : a.nombre # temp_file }

\* finally: remove temp_file if it exists, then continue the loop or
\* complete the pending return.
Finally ==
    /\ lpc = "finally"
    /\ archivos' = Limpieza
    /\ IF salida.tipo = "return"
       THEN /\ Retornar(salida.valor)
            /\ UNCHANGED i
       ELSE /\ i' = i + 1
            /\ lpc' = "descargar"
            /\ UNCHANGED << pc, df, cache, hist, origen >>
    /\ UNCHANGED << pasos, mensajes, temp_file, salida, intentos, avisos,
                    creados >>
    /\ UNCHANGED varsVistas

\* The loop ran out of sources: st.error(...) and return None.
Agotadas ==
    /\ lpc = "descargar"
    /\ i > NumFuentes
    /\ mensajes' = mensajes \cup {"ninguna_fuente"}
    /\ Retornar(None)
    /\ UNCHANGED << pasos, i, temp_file, archivos, salida, intentos, avisos,
                    creados >>
    /\ UNCHANGED varsVistas

\* ---------------------------------------------------------- script run
\* df = load_data(): served from the cache, or the function body runs.
LlamarLoadData ==
    /\ pc = "load_data"
    /\ lpc = "fuera"
    /\ IF CacheHit
       THEN /\ df' = cache.valor
            /\ origen' = "cache"
            /\ pc' = "validar"
            /\ UNCHANGED << lpc, i, temp_file >>
       ELSE /\ lpc' = "descargar"
            /\ i' = 1
            /\ temp_file' = SinTemporal
            /\ UNCHANGED << df, origen, pc >>
    /\ UNCHANGED << pasos, mensajes, cache, archivos, salida, intentos,
                    avisos, creados, hist >>
    /\ UNCHANGED varsVistas

\* Variant of ValidarCarga: the first st.stop() is absent.
ValidarCargaSinStop ==
    /\ pc = "validar"
    /\ IF df = None
       THEN /\ mensajes' = mensajes \cup {"no_se_pudieron_cargar"}
            /\ pc' = "procesar"
       ELSE IF df.filas = << >> \/ df.columns = {}
            THEN /\ mensajes' = mensajes \cup {"datos_invalidos"}
                 /\ pc' = "detenido"
            ELSE /\ pc' = "procesar"
                 /\ UNCHANGED mensajes
    /\ UNCHANGED << df, pasos, cache, hist, origen >>
    /\ UNCHANGED varsCarga
    /\ UNCHANGED varsVistas

\* if df is None: st.error, st.stop(); if df.empty: st.error, st.stop()
ValidarCarga ==
    /\ pc = "validar"
    /\ IF df = None
       THEN /\ mensajes' = mensajes \cup {"no_se_pudieron_cargar"}
            /\ pc' = "detenido"
       ELSE IF df.filas = << >> \/ df.columns = {}
            THEN /\ mensajes' = mensajes \cup {"datos_invalidos"}
                 /\ pc' = "detenido"
            ELSE /\ pc' = "procesar"
                 /\ UNCHANGED mensajes
    /\ UNCHANGED << df, pasos, cache, hist, origen >>
    /\ UNCHANGED varsCarga
    /\ UNCHANGED varsVistas

\* df['Mes'], df['Ano'], df['Dia'] = the .dt components of 'Fecha Pedido'
\* (the weekday, week and hour columns are named in the header only).
Enriquecer(r) ==
    [Vendedor |-> r.Vendedor, Centro |-> r.Centro,
     Fecha_Pedido |-> r.Fecha_Pedido, Monto_Total |-> r.Monto_Total,
     Caja |-> r.Caja, Pedido |-> r.Pedido,
     Nombre_Cliente |-> r.Nombre_Cliente,
     Nombre_Producto |-> r.Nombre_Producto, Mes |-> r.Fecha_Pedido.mes,
     Ano |-> r.Fecha_Pedido.ano, Dia |-> r.Fecha_Pedido.dia]

ColumnasDerivadas ==
    {"Mes", "Ano", "Dia", "Dia Semana", "Semana", "Hora", "Es Dia Habitl"}

\* Date processing: the derived columns, or st.error and st.stop() when
\* the .dt accessor raises.
ProcesarFechas ==
    /\ pc = "procesar"
    /\ pasos' = pasos \cup {"procesar"}
    /\ IF df.fecha_dt
       THEN /\ df' = DataFrame(df.columns \cup ColumnasDerivadas,
                               [k \in DOMAIN df.filas |-> Enriquecer(df.filas[k])],
                               TRUE)
            /\ pc' = "filtros"
            /\ UNCHANGED mensajes
       ELSE /\ mensajes' = mensajes \cup {"error_fechas"}
            /\ pc' = "detenido"
            /\ UNCHANGED df
    /\ UNCHANGED << cache, hist, origen >>
    /\ UNCHANGED varsCarga
    /\ UNCHANGED varsVistas

\* df[col].unique()
Unicos(D, col) == { D[k][col] : k \in DOMAIN D }

\* Sidebar widgets: the year among the years present, the month among the
\* months of that year, any subset of the centers and of the salespeople.
Filtros(a, m, cs, vs) ==
    /\ pc = "filtros"
    /\ a \in Unicos(df.filas, "Ano")
    /\ m \in Unicos(SelectSeq(df.filas, LAMBDA r : r.Ano = a), "Mes")
    /\ cs \in SUBSET Unicos(df.filas, "Centro")
    /\ vs \in SUBSET Unicos(df.filas, "Vendedor")
    /\ ano_seleccionado' = a
    /\ mes_seleccionado' = m
    /\ centros_seleccionados' = cs
    /\ vendedores_seleccionados' = vs
    /\ pasos' = pasos \cup {"filtros"}
    /\ pc' = "aplicar"
    /\ UNCHANGED << df, mensajes, cache, hist, origen, df_filtrado,
                    aviso_filtro, ventas_totales, cajas_totales,
                    ventas_vendedor, ventas_centro >>
    /\ UNCHANGED varsPestanas
    /\ UNCHANGED varsCarga

\* Variant of Coincide: the month condition is absent.
CoincideSinMes(r, a, m, cs, vs) ==
    /\ r.Ano = a
    /\ r.Centro \in cs
    /\ r.Vendedor \in vs

\* The boolean mask of the filter, row by row.
Coincide(r, a, m, cs, vs) ==
    /\ r.Ano = a
    /\ r.Mes = m
    /\ r.Centro \in cs
    /\ r.Vendedor \in vs

\* df[mask].copy()
Mascara(D, a, m, cs, vs) ==
    SelectSeq(D, LAMBDA r : Coincide(r, a, m, cs, vs))

\* Variant of Filtrar: the fallback skips the first row (df.iloc[1:]).
FiltrarRecorte(D, a, m, cs, vs) ==
    IF Mascara(D, a, m, cs, vs) = << >> THEN SubSeq(D, 2, Len(D))
    ELSE Mascara(D, a, m, cs, vs)

\* The value of df_filtrado: the masked rows, or all of D when none match.
Filtrar(D, a, m, cs, vs) ==
    IF Mascara(D, a, m, cs, vs) = << >> THEN D ELSE Mascara(D, a, m, cs, vs)

AplicarFiltros ==
    /\ pc = "aplicar"
    /\ df_filtrado' = Filtrar(df.filas, ano_seleccionado, mes_seleccionado,
                              centros_seleccionados, vendedores_seleccionados)
    /\ aviso_filtro' = (Mascara(df.filas, ano_seleccionado, mes_seleccionado,
                                centros_seleccionados,
                                vendedores_seleccionados) = << >>)
    /\ pasos' = pasos \cup {"aplicar"}
    /\ pc' = "tab1"
    /\ UNCHANGED << df, mensajes, cache, hist, origen, ano_seleccionado,
                    mes_seleccionado, centros_seleccionados,
                    vendedores_seleccionados, ventas_totales, cajas_totales,
                    ventas_vendedor, ventas_centro >>
    /\ UNCHANGED varsPestanas
    /\ UNCHANGED varsCarga

\* ----------------------------------------------------------- aggregation
RECURSIVE Suma(_, _)
\* D[col].sum()
Suma(D, col) == IF D = << >> THEN 0 ELSE D[1][col] + Suma(Tail(D), col)

\* The group keys of the data domain in ascending order (groupby sorts).
OrdenClaves == << "A", "B", "X", "Y" >>

\* The keys groupby(col) makes groups for: rows whose key is blank belong
\* to no group (dropna is on by default).
Claves(D, col) == Unicos(D, col) \ {NaN}

FilaGrupo(D, col, g) ==
    LET grupo == SelectSeq(D, LAMBDA r : r[col] = g)
    IN  [clave |-> g, Monto_Total |-> Suma(grupo, "Monto_Total"),
         Caja |-> Suma(grupo, "Caja")]

\* D.groupby(col).agg({'Monto Total': 'sum', 'Caja': 'sum'}).reset_index()
Agrupar(D, col) ==
    LET presentes == SelectSeq(OrdenClaves, LAMBDA g : g \in Claves(D, col))
    IN  [k \in DOMAIN presentes |-> FilaGrupo(D, col, presentes[k])]

RECURSIVE Insertar(_, _)
Insertar(fila, ordenadas) ==
    IF ordenadas = << >> THEN << fila >>
    ELSE IF fila.Monto_Total > ordenadas[1].Monto_Total
         THEN << fila >> \o ordenadas
         ELSE << ordenadas[1] >> \o Insertar(fila, Tail(ordenadas))

RECURSIVE OrdenarDesc(_)
\* .sort_values('Monto Total', ascending=False)
OrdenarDesc(filas) ==
    IF filas = << >> THEN << >>
    ELSE LET n == Len(filas)
         IN  Insertar(filas[n], OrdenarDesc(SubSeq(filas, 1, n - 1)))

\* Series.nunique() of a numeric column: blank cells are not counted.
NUnique(D, col) == Cardinality(Unicos(D, col) \ {SinValor})

\* ventas_totales / pedidos_totales if pedidos_totales > 0 else 0
TicketPromedio(vt, pt) == IF pt > 0 THEN Fraccion(vt, pt) ELSE Cero

\* mes_seleccionado - 1 if mes_seleccionado > 1 else 12
MesAnterior(m) == IF m > 1 THEN m - 1 ELSE 12

\* año_seleccionado if mes_seleccionado > 1 else año_seleccionado - 1
AnoMesAnterior(a, m) == IF m > 1 THEN a ELSE a - 1

\* ((ventas_totales - ventas_mes_anterior) / ventas_mes_anterior * 100)
\* if ventas_mes_anterior != 0 else 0
Variacion(vt, va) ==
    IF va # 0 THEN Fraccion((vt - va) * 100, va) ELSE Cero

\* Summary tab: the KPI totals, the comparison with the month before and
\* the per-salesperson and per-center tables behind the two charts.
Tab1 ==
    /\ pc = "tab1"
    /\ ventas_totales' = Suma(df_filtrado, "Monto_Total")
    /\ cajas_totales' = Suma(df_filtrado, "Caja")
    /\ pedidos_totales' = NUnique(df_filtrado, "Pedido")
    /\ ticket_promedio' = TicketPromedio(ventas_totales', pedidos_totales')
    /\ ventas_mes_anterior' =
           Suma(Mascara(df.filas,
                        AnoMesAnterior(ano_seleccionado, mes_seleccionado),
                        MesAnterior(mes_seleccionado),
                        centros_seleccionados, vendedores_seleccionados),
                "Monto_Total")
    /\ variacion' = Variacion(ventas_totales', ventas_mes_anterior')
    /\ ventas_vendedor' = OrdenarDesc(Agrupar(df_filtrado, "Vendedor"))
    /\ ventas_centro' = OrdenarDesc(Agrupar(df_filtrado, "Centro"))
    /\ pasos' = pasos \cup {"tab1"}
    /\ pc' = "tab2"
    /\ UNCHANGED << df, mensajes, cache, hist, origen, ano_seleccionado,
                    mes_seleccionado, centros_seleccionados,
                    vendedores_seleccionados, df_filtrado, aviso_filtro,
                    objetivo, pedidos_vendedor, clientes_seleccionados,
                    productos_buscar >>
    /\ UNCHANGED varsCarga

\* Values of the daily-target number_input (min_value=1, step=1).
Objetivos == {1, objetivo_default}

\* Variant of DiasHabiles: the rows are counted, not the distinct days.
DiasHabilesFilas(D) == Len(D)

\* dias_habiles = df_filtrado['Dia'].nunique()
DiasHabiles(D) == NUnique(D, "Dia")

\* Series / n and Series * n on a division result.
Dividir(x, n) == Fraccion(x.num, x.den * n)

Multiplicar(x, n) == Fraccion(x.num * n, x.den)

\* One row of pedidos_vendedor: the aggregates of salesperson g and the
\* three derived columns.
FilaPedidos(D, g, obj) ==
    LET grupo == SelectSeq(D, LAMBDA r : r.Vendedor = g)
        pedidos == NUnique(grupo, "Pedido")
        dias == NUnique(grupo, "Dia")
    IN  [Vendedor |-> g, Pedido |-> pedidos, Dia |-> dias,
         Monto_Total |-> Suma(grupo, "Monto_Total"),
         Pedidos_Dia |-> Fraccion(pedidos, dias),
         Cumplimiento |->
             Multiplicar(Dividir(Fraccion(pedidos, dias), obj), 100),
         Desviacion |-> pedidos - obj * DiasHabiles(D)]

\* df_filtrado.groupby('Vendedor').agg(...).reset_index() with the
\* 'Pedidos/Día', 'Cumplimiento %' and 'Desviación' columns.
PedidosVendedor(D, obj) ==
    LET presentes == SelectSeq(OrdenClaves, LAMBDA g : g \in Claves(D, "Vendedor"))
    IN  [k \in DOMAIN presentes |-> FilaPedidos(D, presentes[k], obj)]

\* Orders tab: the target input and the compliance table.
Tab2(obj) ==
    /\ pc = "tab2"
    /\ obj \in Objetivos
    /\ objetivo' = obj
    /\ pedidos_vendedor' = PedidosVendedor(df_filtrado, obj)
    /\ pasos' = pasos \cup {"tab2"}
    /\ pc' = "tab3"
    /\ UNCHANGED << df, mensajes, cache, hist, origen, ano_seleccionado,
                    mes_seleccionado, centros_seleccionados,
                    vendedores_seleccionados, df_filtrado, aviso_filtro,
                    ventas_totales, cajas_totales, ventas_vendedor,
                    ventas_centro, pedidos_totales, ticket_promedio,
                    ventas_mes_anterior, variacion, clientes_seleccionados,
                    productos_buscar >>
    /\ UNCHANGED varsCarga

\* Where the script goes after a drill-down tab: st.stop() ends the run
\* when nothing is selected (the StopException it raises is not an
\* Exception, so the tab's except clause does not catch it); an exception
\* in the tab is caught and reported, and the script goes on.
TrasPestana(seleccion, falla, aviso, error, siguiente) ==
    IF seleccion = {}
    THEN /\ mensajes' = mensajes \cup {aviso}
         /\ pc' = "detenido"
    ELSE /\ mensajes' = IF falla THEN mensajes \cup {error} ELSE mensajes
         /\ pc' = siguiente

\* Customers tab: the customer multiselect over df_filtrado, then the
\* summary, detail and chart of the selected customers.
Tab3(sel, falla) ==
    /\ pc = "tab3"
    /\ sel \in SUBSET Unicos(df_filtrado, "Nombre_Cliente")
    /\ clientes_seleccionados' = sel
    /\ TrasPestana(sel, falla, "seleccione_cliente", "error_pestana_clientes",
                   "tab4")
    /\ pasos' = pasos \cup {"tab3"}
    /\ UNCHANGED << df, cache, hist, origen, ano_seleccionado,
                    mes_seleccionado, centros_seleccionados,
                    vendedores_seleccionados, df_filtrado, aviso_filtro,
                    ventas_totales, cajas_totales, ventas_vendedor,
                    ventas_centro, pedidos_totales, ticket_promedio,
                    ventas_mes_anterior, variacion, objetivo,
                    pedidos_vendedor, productos_buscar >>
    /\ UNCHANGED varsCarga

\* Products tab: the product multiselect over df, then the summary,
\* detail and chart of the selected products.
Tab4(sel, falla) ==
    /\ pc = "tab4"
    /\ sel \in SUBSET Unicos(df.filas, "Nombre_Producto")
    /\ productos_buscar' = sel
    /\ TrasPestana(sel, falla, "seleccione_producto", "error_pestana_productos",
                   "sidebar")
    /\ pasos' = pasos \cup {"tab4"}
    /\ UNCHANGED << df, cache, hist, origen, ano_seleccionado,
                    mes_seleccionado, centros_seleccionados,
                    vendedores_seleccionados, df_filtrado, aviso_filtro,
                    ventas_totales, cajas_totales, ventas_vendedor,
                    ventas_centro, pedidos_totales, ticket_promedio,
                    ventas_mes_anterior, variacion, objetivo,
                    pedidos_vendedor, clientes_seleccionados >>
    /\ UNCHANGED varsCarga

\* The state a script run starts from.
InicioDeRun ==
    /\ pc' = "load_data"
    /\ df' = SinCargar
    /\ pasos' = {}
    /\ mensajes' = {}
    /\ origen' = "ninguno"
    /\ lpc' = "fuera"
    /\ i' = 1
    /\ temp_file' = SinTemporal
    /\ salida' = Continue
    /\ intentos' = << >>
    /\ avisos' = << >>
    /\ creados' = {}
    /\ ano_seleccionado' = 0
    /\ mes_seleccionado' = 0
    /\ centros_seleccionados' = {}
    /\ vendedores_seleccionados' = {}
    /\ df_filtrado' = << >>
    /\ aviso_filtro' = FALSE
    /\ ventas_totales' = 0
    /\ cajas_totales' = 0
    /\ ventas_vendedor' = << >>
    /\ ventas_centro' = << >>
    /\ pedidos_totales' = 0
    /\ ticket_promedio' = Cero
    /\ ventas_mes_anterior' = 0
    /\ variacion' = Cero
    /\ objetivo' = objetivo_default
    /\ pedidos_vendedor' = << >>
    /\ clientes_seleccionados' = {}
    /\ productos_buscar' = {}

\* Sidebar footer: the refresh button clears the cache and reruns the
\* script; otherwise the date range is written and the run ends.
BarraLateral(pulsado) ==
    /\ pc = "sidebar"
    /\ IF pulsado
       THEN /\ cache' = Vaciar
            /\ hist' = IF hist.hubo THEN [hist EXCEPT !.invalidado = TRUE]
                       ELSE hist
            /\ InicioDeRun
            /\ UNCHANGED archivos
       ELSE /\ pasos' = pasos \cup {"sidebar"}
            /\ pc' = "reposo"
            /\ UNCHANGED << df, mensajes, cache, hist, origen >>
            /\ UNCHANGED varsCarga
            /\ UNCHANGED varsVistas

\* A widget interaction or a page reload runs the script again.
Rerun ==
    /\ pc \in {"reposo", "detenido"}
    /\ InicioDeRun
    /\ UNCHANGED << cache, hist, archivos >>

Min(a, b) == IF a < b THEN a ELSE b

\* Elapsed seconds between two script runs.
Avances == {1799, 1800}

\* Time passes between script runs: the stored entry ages.
Tick(d) ==
    /\ pc \in {"reposo", "detenido"}
    /\ cache.presente
    /\ cache.edad < ttl
    /\ cache' = [cache EXCEPT !.edad = Min(@ + d, ttl)]
    /\ hist' = [hist EXCEPT !.edad = Min(@ + d, ttl)]
    /\ UNCHANGED << pc, df, pasos, mensajes, origen >>
    /\ UNCHANGED varsCarga
    /\ UNCHANGED varsVistas

\* ------------------------------------------------------- specifications
Init ==
    /\ pc = "load_data"
    /\ df = SinCargar
    /\ pasos = {}
    /\ mensajes = {}
    /\ cache = SinEntrada
    /\ hist = SinHistoria
    /\ origen = "ninguno"
    /\ lpc = "fuera"
    /\ i = 1
    /\ temp_file = SinTemporal
    /\ archivos = {}
    /\ salida = Continue
    /\ intentos = << >>
    /\ avisos = << >>
    /\ creados = {}
    /\ ano_seleccionado = 0
    /\ mes_seleccionado = 0
    /\ centros_seleccionados = {}
    /\ vendedores_seleccionados = {}
    /\ df_filtrado = << >>
    /\ aviso_filtro = FALSE
    /\ ventas_totales = 0
    /\ cajas_totales = 0
    /\ ventas_vendedor = << >>
    /\ ventas_centro = << >>
    /\ pedidos_totales = 0
    /\ ticket_promedio = Cero
    /\ ventas_mes_anterior = 0
    /\ variacion = Cero
    /\ objetivo = objetivo_default
    /\ pedidos_vendedor = << >>
    /\ clientes_seleccionados = {}
    /\ productos_buscar = {}

Next ==
    \/ LlamarLoadData
    \/ \E res \in Descargas(file_urls[1]) \cup Descargas(file_urls[2]) :
           Descargar(res)
    \/ Verificar
    \/ Finally
    \/ Agotadas
    \/ ValidarCarga
    \/ ProcesarFechas
    \/ \E a \in {2023, 2024}, m \in {3, 4}, cs \in SUBSET {"X", "Y"},
          vs \in SUBSET {"A", "B", NaN} : Filtros(a, m, cs, vs)
    \/ AplicarFiltros
    \/ Tab1
    \/ \E obj \in Objetivos : Tab2(obj)
    \/ \E sel \in SUBSET {"C1"}, falla \in BOOLEAN : Tab3(sel, falla)
    \/ \E sel \in SUBSET {"P1"}, falla \in BOOLEAN : Tab4(sel, falla)
    \/ \E pulsado \in BOOLEAN : BarraLateral(pulsado)
    \/ Rerun
    \/ \E d \in Avances : Tick(d)

Spec == Init /\ [][Next]_vars

\* The datasets the views are checked on: every non-empty table over the
\* data domain, as a successful first attempt of load_data has just
\* returned it.
DatasetsVistas ==
    { DataFrame(Rango(required_columns), f, TRUE) :
        f \in SeqHasta(Registros, MaxRegistros) \ { << >> } }

\* The state after load_data has returned one of the datasets S from its
\* first source and the script has validated it.
InitCargado(S) ==
    /\ df \in S
    /\ pc = "procesar"
    /\ pasos = {}
    /\ mensajes = {}
    /\ cache = Entrada(df)
    /\ hist = [hubo |-> TRUE, valor |-> df, edad |-> 0, invalidado |-> FALSE]
    /\ origen = "pipeline"
    /\ lpc = "fuera"
    /\ i = 1
    /\ temp_file = NombreTemporal(1)
    /\ archivos = {}
    /\ salida = Return(df)
    /\ intentos = << [fuente |-> 1,
                      descarga |-> [excepcion |-> FALSE, escrito |-> TRUE,
                                    contenido |-> [clase |-> "xlsx",
                                                   tabla |-> df]]] >>
    /\ avisos = << >>
    /\ creados = { NombreTemporal(1) }
    /\ ano_seleccionado = 0
    /\ mes_seleccionado = 0
    /\ centros_seleccionados = {}
    /\ vendedores_seleccionados = {}
    /\ df_filtrado = << >>
    /\ aviso_filtro = FALSE
    /\ ventas_totales = 0
    /\ cajas_totales = 0
    /\ ventas_vendedor = << >>
    /\ ventas_centro = << >>
    /\ pedidos_totales = 0
    /\ ticket_promedio = Cero
    /\ ventas_mes_anterior = 0
    /\ variacion = Cero
    /\ objetivo = objetivo_default
    /\ pedidos_vendedor = << >>
    /\ clientes_seleccionados = {}
    /\ productos_buscar = {}

InitVistas == InitCargado(DatasetsVistas)

NextVistas ==
    \/ ProcesarFechas
    \/ \E a \in {2023, 2024}, m \in {3, 4}, cs \in SUBSET {"X", "Y"},
          vs \in SUBSET {"A", "B", NaN} : Filtros(a, m, cs, vs)
    \/ AplicarFiltros
    \/ Tab1

SpecVistas == InitVistas /\ [][NextVistas]_vars

\* The datasets the orders tab is checked on: every table over its rows
\* that has a dated row (the date range of the sidebar needs one).
DatasetsPestanas ==
    { DataFrame(Rango(required_columns), f, TRUE) :
        f \in { g \in SeqHasta(RegistrosPestanas, MaxRegistros) :
                   \E k \in DOMAIN g : g[k].Fecha_Pedido # NaT } }

InitPestanas == InitCargado(DatasetsPestanas)

\* The script from the date processing to the orders tab, with a year
\* that has rows selected.
NextPestanas ==
    \/ ProcesarFechas
    \/ \E m \in {2, 3}, cs \in SUBSET {"X"}, vs \in SUBSET {"A", "B"} :
          Filtros(2024, m, cs, vs)
    \/ AplicarFiltros
    \/ Tab1
    \/ \E obj \in Objetivos : Tab2(obj)

SpecPestanas == InitPestanas /\ [][NextPestanas]_vars

\* ------------------------------------------------------------ properties
\* An attempt fails when the download raised or wrote nothing, the file is
\* zero bytes or unreadable, or a required column is absent.
FalloFuente(a) ==
    \/ a.descarga.excepcion
    \/ ~a.descarga.escrito
    \/ a.descarga.contenido.clase \in {"vacio", "corrupto"}
    \/ ~(Rango(required_columns) \subseteq a.descarga.contenido.tabla.columns)

\* load_data has returned from its body in the current script run.
Retornado == origen = "pipeline"

\* C1: load_data attempts the sources in listed order, each at most once,
\* and goes on to source k+1 exactly when sources 1..k all failed; it
\* returns the table of the first source that does not fail, None exactly
\* when every source failed, and one warning per failed source.
C1_FuentesEnOrden ==
    /\ Len(intentos) <= NumFuentes
    /\ \A k \in DOMAIN intentos : intentos[k].fuente = k
    /\ \A k \in DOMAIN intentos : k < Len(intentos) => FalloFuente(intentos[k])
    /\ Retornado =>
         LET buenas == { k \in DOMAIN intentos : ~FalloFuente(intentos[k]) }
         IN  /\ buenas # {} =>
                  /\ buenas = { Len(intentos) }
                  /\ hist.valor = intentos[Len(intentos)].descarga.contenido.tabla
             /\ buenas = {} =>
                  /\ hist.valor = None
                  /\ Len(intentos) = NumFuentes
             /\ Len(avisos) = Cardinality(DOMAIN intentos \ buenas)
             /\ \A k \in DOMAIN avisos : avisos[k].fuente = k

\* C1 witness: the first source gave a zero-byte file, the second a valid
\* one; the load returned the second table and warned about the first.
C1_Witness ==
    /\ Retornado
    /\ Len(intentos) = 2
    /\ intentos[1].descarga.escrito
    /\ ~intentos[1].descarga.excepcion
    /\ intentos[1].descarga.contenido.clase = "vacio"
    /\ hist.valor = intentos[2].descarga.contenido.tabla
    /\ avisos = << IntentoFallido(1) >>

\* C2: a failed load is never served from the cache: a script run whose
\* load_data call was answered by the stored entry never gets None.
C2_FalloNoCacheado == origen = "cache" => df # None

\* The step that calls load_data from the script.
Acceso == pc = "load_data" /\ lpc = "fuera"

\* C3: after a successful load and with no invalidation since, a call made
\* while less than ttl seconds have passed returns the loaded dataset and
\* attempts no source; a call made once ttl seconds have passed runs the
\* function body again from the first source.
C3_CacheDentroDeTtl ==
    [][ (Acceso /\ hist.hubo /\ hist.valor # None /\ ~hist.invalidado)
          => IF hist.edad < ttl
             THEN /\ df' = hist.valor
                  /\ pc' = "validar"
                  /\ lpc' = "fuera"
                  /\ intentos' = << >>
             ELSE /\ lpc' = "descargar"
                  /\ i' = 1
                  /\ df' = SinCargar ]_vars

\* C3 witness: a run served from the cache, some time after the load.
C3_Witness ==
    /\ origen = "cache"
    /\ pc = "validar"
    /\ hist.edad > 0
    /\ hist.edad < ttl
    /\ df = hist.valor
    /\ df # None
    /\ intentos = << >>

\* C4: once the refresh button has cleared the cache, the next call of
\* load_data runs the function body, whatever the age of the last load.
C4_RefrescoSaltaCache ==
    [][ (Acceso /\ hist.hubo /\ hist.invalidado)
          => /\ lpc' = "descargar"
             /\ i' = 1
             /\ df' = SinCargar ]_vars

\* C4 witness: the pipeline is downloading again after a refresh, although
\* the last successful load is younger than ttl.
C4_Witness ==
    /\ hist.hubo
    /\ hist.invalidado
    /\ hist.valor # None
    /\ hist.edad < ttl
    /\ lpc = "verificar"
    /\ Len(intentos) = 1

CargaFallida ==
    \/ origen = "pipeline" /\ hist.valor = None
    \/ origen = "cache" /\ cache.presente /\ cache.valor = None

PasosDeProceso ==
    {"procesar", "filtros", "aplicar", "tab1", "tab2", "tab3", "tab4", "sidebar"}

\* C6: when the load failed, df is None (nothing older stands in for it),
\* no processing step runs, and the run stops with the error message.
C6_FalloDetiene ==
    CargaFallida =>
        /\ df = None
        /\ pasos \cap PasosDeProceso = {}
        /\ pc \in {"validar", "detenido"}
        /\ pc = "detenido" => "no_se_pudieron_cargar" \in mensajes

\* C6 witness: a run stopped on a failed load although an earlier load of
\* the same session had succeeded and expired.
C6_Witness ==
    /\ origen = "pipeline"
    /\ hist.valor = None
    /\ pc = "detenido"
    /\ "no_se_pudieron_cargar" \in mensajes
    /\ Len(intentos) = NumFuentes

\* The n-th smallest member of a set of row numbers.
Enesimo(S, n) == CHOOSE x \in S : Cardinality({ y \in S : y < x }) = n - 1

\* The rows of D at the positions S, in their order in D.
FilasEn(D, S) == [n \in 1..Cardinality(S) |-> D[Enesimo(S, n)]]

\* The positions of the rows of df that satisfy the selection.
Seleccionadas ==
    { k \in DOMAIN df.filas :
        /\ df.filas[k].Ano = ano_seleccionado
        /\ df.filas[k].Mes = mes_seleccionado
        /\ df.filas[k].Centro \in centros_seleccionados
        /\ df.filas[k].Vendedor \in vendedores_seleccionados }

\* C7: df_filtrado is exactly the rows matching year, month, centers and
\* salespeople when some row matches, the whole of df when none does, and
\* the warning is raised exactly when none does.
C7_FiltroExacto ==
    "aplicar" \in pasos =>
        /\ Seleccionadas # {} => df_filtrado = FilasEn(df.filas, Seleccionadas)
        /\ Seleccionadas = {} => df_filtrado = df.filas
        /\ aviso_filtro <=> Seleccionadas = {}

\* C7 witness: the filter kept some rows of df and dropped others.
C7_Witness ==
    /\ "aplicar" \in pasos
    /\ ~aviso_filtro
    /\ Len(df_filtrado) = 1
    /\ Len(df.filas) = 2

\* C8: filtering the filtered rows again by the same selection returns
\* the same rows, also after the fallback to the whole dataset.
C8_FiltroIdempotente ==
    "aplicar" \in pasos =>
        Filtrar(df_filtrado, ano_seleccionado, mes_seleccionado,
                centros_seleccionados, vendedores_seleccionados) = df_filtrado

\* C8 witness: nothing matched and the filter fell back to two rows.
C8_Witness ==
    /\ "aplicar" \in pasos
    /\ aviso_filtro
    /\ Len(df_filtrado) = 2

\* The attempts whose parsed table lacks a required column and whose
\* validation has run.
SinColumnas ==
    { k \in DOMAIN intentos :
        /\ ~intentos[k].descarga.excepcion
        /\ intentos[k].descarga.escrito
        /\ intentos[k].descarga.contenido.clase = "xlsx"
        /\ ~(Rango(required_columns)
               \subseteq intentos[k].descarga.contenido.tabla.columns)
        /\ ~(k = Len(intentos) /\ lpc = "verificar") }

\* C9: a source whose table lacks required columns gets one warning that
\* names exactly the absent required columns, is never returned, and is
\* followed by the next source.
C9_ColumnasFaltantes ==
    \A k \in SinColumnas :
        LET cols == intentos[k].descarga.contenido.tabla.columns
            suyos == { n \in DOMAIN avisos : avisos[n].fuente = k }
        IN  /\ Cardinality(suyos) = 1
            /\ \A n \in suyos :
                 /\ avisos[n].tipo = "faltan_columnas"
                 /\ Rango(avisos[n].missing) = Rango(required_columns) \ cols
                 /\ Len(avisos[n].missing) = Cardinality(Rango(avisos[n].missing))
            /\ lpc = "finally" /\ k = Len(intentos) => salida = Continue
            /\ Retornado /\ hist.valor # None =>
                 Rango(required_columns) \subseteq hist.valor.columns
            /\ k < NumFuentes /\ (Retornado \/ lpc = "verificar") =>
                 Len(intentos) > k
            /\ k = Len(intentos) /\ lpc = "descargar" => i = k + 1

\* C9 witness: the first source lacked 'Precio' and 'Centro', the warning
\* names those two, and the second source was attempted.
C9_Witness ==
    /\ Len(intentos) = 2
    /\ 1 \in SinColumnas
    /\ avisos[1] = FaltanColumnas(1, << "Precio", "Centro" >>)

RECURSIVE SumaFilas(_, _)
SumaFilas(filas, col) ==
    IF filas = << >> THEN 0 ELSE filas[1][col] + SumaFilas(Tail(filas), col)

\* C10: the per-salesperson and per-center sums of total amount and of
\* box count add up to the ungrouped totals of the filtered dataset.
C10_SumasConservadas ==
    "tab1" \in pasos =>
        /\ SumaFilas(ventas_vendedor, "Monto_Total") = ventas_totales
        /\ SumaFilas(ventas_vendedor, "Caja") = cajas_totales
        /\ SumaFilas(ventas_centro, "Monto_Total") = ventas_totales
        /\ SumaFilas(ventas_centro, "Caja") = cajas_totales

\* The views and the trailing sidebar section of one script run.
VistasYBarra == {"tab1", "tab2", "tab3", "tab4", "sidebar"}

\* C11: in every script run where the dataset loaded and was filtered, a
\* failure in one view (an empty customer or product selection included)
\* never aborts the others: when the run is over, each of the four views
\* and the trailing sidebar section has been rendered.
C11_VistasIndependientes ==
    (pc \in {"reposo", "detenido"} /\ "aplicar" \in pasos) =>
        VistasYBarra \subseteq pasos

\* The rows of the filtered dataset that belong to salesperson v.
FilasDe(v) == SelectSeq(df_filtrado, LAMBDA r : r.Vendedor = v)

\* Number of distinct non-blank values of a column in a sequence of rows.
Distintos(filas, col) ==
    Cardinality({ filas[k][col] : k \in DOMAIN filas } \ {SinValor})

\* Two division results are the same quotient.
MismoCociente(x, y) == x.num * y.den = y.num * x.den

\* The orders-per-day and compliance columns of a row of the compliance
\* table: orders-per-day is the salesperson's distinct order count over the
\* salesperson's distinct day count, and compliance is
\* (orders-per-day / target) times 100.
ColumnasDeRazon(fila) ==
    /\ fila.Pedido = Distintos(FilasDe(fila.Vendedor), "Pedido")
    /\ fila.Pedidos_Dia =
           Fraccion(fila.Pedido, Distintos(FilasDe(fila.Vendedor), "Dia"))
    /\ MismoCociente(fila.Cumplimiento,
                     Fraccion(fila.Pedidos_Dia.num * 100,
                              fila.Pedidos_Dia.den * objetivo))

\* C12 as stated: for every salesperson row of the compliance table,
\* deviation equals the salesperson's distinct order count minus target
\* times the salesperson's own distinct day count (the denominator of the
\* row's orders-per-day), and compliance equals (orders-per-day / target)
\* times 100.
C12_DesviacionDiasDelVendedor ==
    "tab2" \in pasos =>
        \A k \in DOMAIN pedidos_vendedor :
            /\ ColumnasDeRazon(pedidos_vendedor[k])
            /\ pedidos_vendedor[k].Desviacion =
                   pedidos_vendedor[k].Pedido
                   - objetivo * pedidos_vendedor[k].Pedidos_Dia.den

\* C12 amended: for every salesperson row of the compliance table,
\* deviation equals the salesperson's distinct order count minus target
\* times the distinct day count of the whole filtered dataset, and
\* compliance equals (orders-per-day / target) times 100, orders-per-day
\* being taken over the salesperson's own distinct day count.
C12_DesviacionDiasDelPeriodo ==
    "tab2" \in pasos =>
        \A k \in DOMAIN pedidos_vendedor :
            /\ ColumnasDeRazon(pedidos_vendedor[k])
            /\ pedidos_vendedor[k].Desviacion =
                   pedidos_vendedor[k].Pedido
                   - objetivo * Distintos(df_filtrado, "Dia")

\* The compliance table has a salesperson with one order on one day while
\* the filtered dataset spans two days, at the default target.
C12_Witness ==
    /\ "tab2" \in pasos
    /\ objetivo = objetivo_default
    /\ Distintos(df_filtrado, "Dia") = 2
    /\ \E k \in DOMAIN pedidos_vendedor :
           /\ pedidos_vendedor[k].Pedidos_Dia = Fraccion(1, 1)
           /\ pedidos_vendedor[k].Desviacion = 1 - 2 * objetivo_default

\* C13: every derived ratio is zero when its denominator is zero:
\* orders-per-day of a salesperson with zero distinct days, the average
\* ticket with zero distinct orders, and the month-over-month variation
\* with zero previous-month sales.
C13_RazonesConDenominadorCero ==
    /\ "tab1" \in pasos =>
           /\ Distintos(df_filtrado, "Pedido") = 0 => ticket_promedio = Cero
           /\ ventas_mes_anterior = 0 => variacion = Cero
    /\ "tab2" \in pasos =>
           \A k \in DOMAIN pedidos_vendedor :
               Distintos(FilasDe(pedidos_vendedor[k].Vendedor), "Dia") = 0
                   => pedidos_vendedor[k].Pedidos_Dia = Cero

====
